---- MODULE Spec2Model ----
(***************************************************************************)
(* The four-phase ideation session of AgentOrchestrator                    *)
(* (src/src/backend/services/agentOrchestrator.js).                        *)
(*                                                                         *)
(* One step of the model is what the JavaScript event loop runs without    *)
(* interruption: the answer (or failure) of the backend call in flight,    *)
(* followed by the continuation of the async functions up to the next      *)
(* `await axios.post(...)`, or up to the return (or throw) of              *)
(* executeIdeationSession.                                                 *)
(*                                                                         *)
(* Text is a sequence of tokens.  The tokens that cleanResponse reads are  *)
(*   "T" = "<think>"     "E" = "</think>"    "N" = "**Note:"               *)
(*   "R" = "Human:" or "Assistant:"          "s" = a blank                 *)
(*   "n" = a line break                      "w" = any other word          *)
(* Times are in milliseconds.                                              *)
(***************************************************************************)
EXTENDS Integers, Sequences, FiniteSets, TLC

VARIABLES
    apiKey,            \* config.API.key is a non-empty string
    availableModels,   \* this.availableModels
    pc,                \* state of the session (spec 4.4)
    inflight,          \* the axios.post that is awaited, or NoCall
    results,           \* `results` of executePhase1 / executePhase3
    expansionResults,  \* `expansionResults` of executePhase2
    lastAgent,         \* `lastAgent` of executePhase2
    iterationCount,    \* `iterationCount` of executePhase2
    elapsed,           \* Date.now() - startTime in executePhase2
    sessionResults,    \* `sessionResults` of executeIdeationSession
    finalResult,       \* what executeIdeationSession returns
    requests,          \* number of axios.post issued, per phase
    lastReturn,        \* the last return of executeAgent
    phase2Duration,    \* Date.now() - startTime when executePhase2 returns
    faults,            \* number of calls a reachable backend did not answer
                       \* with a text
    twoPc,             \* two sessions on one instance: the state of each
    twoCall,           \* ... the axios.post that each awaits, or NoCall
    frames,            \* ... the local variables of each activation of
                       \* executeIdeationSession and of its phases
    twoFaults,         \* ... the calls that failed
    envTimeLimit,      \* process.env.IDEATION_TIME_LIMIT: <<>> when it is not
                       \* set, else <<the number it holds>>
    now,               \* the sessions of MagenticOneService: Date.now(), ms
    ideationTimeLimit, \* ... this.ideationTimeLimit: <<>> when the
                       \* constructor sets none, else <<seconds>>
    activeSessions,    \* ... this.activeSessions: the entries of the Map,
                       \* each with its key
    timers,            \* ... the timers set by setTimeout and not cleared
    started,           \* ... the calls of startIdeationSession so far and
                       \* what became of each session
    history,           \* the chat controller: this.history of HistoryManager
    historyFile,       \* ... the file chat_history.json
    initializing,      \* ... initialize() of HistoryManager has not returned
    chat,              \* ... the sendMessage requests: where each one waits
                       \* and what was sent as its answer
    socketQueue,       \* SocketService: this.messageQueue.get(socket.id), as
                       \* the numbers of its messages
    socketMessages,    \* ... the message objects that were queued, with what
                       \* has been done with each
    chains,            \* ... the activations of processQueue, one for each
                       \* addToQueue: where it waits and the message it holds
    messageQueue,      \* the legacy socket server: `messageQueue` of the
                       \* connection
    isProcessing,      \* ... `isProcessing` of the connection
    inProcess,         \* ... the activations of processMessageQueue that
                       \* await something, each with its message
    arrived,           \* ... the messages that have passed the rate limiter
    serviceAgents,     \* the response cache of MagenticOneService: whether
                       \* the instance has `this.agents`
    responseCache,     \* ... `this.responseCache`: the entries, one for a key
    cachePending,      \* ... the calls of getAgentResponse that await the API
    cacheNow,          \* ... Date.now(), in hours
    cacheCalls,        \* ... the calls of getAgentResponse made
    lastServed         \* ... what the last call that settled gave its caller

vars == <<apiKey, availableModels, pc, inflight, results, expansionResults,
          lastAgent, iterationCount, elapsed, sessionResults, finalResult,
          requests, lastReturn, phase2Duration, faults>>

twoVars == <<twoPc, twoCall, frames, twoFaults, envTimeLimit>>

registryVars == <<now, ideationTimeLimit, activeSessions, timers, started>>

chatVars == <<history, historyFile, initializing, chat>>

\* the variables of the other components
socketVars == <<socketQueue, socketMessages, chains>>

legacyVars == <<messageQueue, isProcessing, inProcess, arrived>>

cacheVars ==
    <<serviceAgents, responseCache, cachePending, cacheNow, cacheCalls,
      lastServed>>

restVars == <<registryVars, chatVars, socketVars, legacyVars, cacheVars>>

\* null, where the code holds a text
Null == <<"null">>

\* null, where the code holds an agent type
None == "none"

-----------------------------------------------------------------------------
(* Configuration and constants of the code *)

\* this.agents of the constructor
agents == {"creative", "reasoning", "logical"}

\* `agents` of executePhase2
phase2Agents == <<"creative", "logical", "reasoning">>

\* mutant: the reasoning step before the logical step
FixedOrderSwapped == <<"creative", "reasoning", "logical">>

\* the order of the steps of executePhase1 and executePhase3
FixedOrder == <<"creative", "logical", "reasoning">>

\* config.AVAILABLE_MODELS (two stand for the seven)
ConfiguredModels == <<"deepseek-r1-distill-llama-70b", "gemma2-9b-it">>

\* `const phase2TimeLimit = 60000` of executePhase2
phase2TimeLimit == 60000

\* `iterationCount < 10` of executePhase2
MaxIterations == 10

\* `timeout: 30000` of the axios.post of executeAgent
CallTimeout == 30000

\* `totalPhases: 4` of executeFinalSummary
totalPhases == 4

\* the times after which the backend answers, below the timeout
ResponseTimes == {0, 20000}

\* bound of the model: the faulty outcomes of a session with a key
MaxFaults == 3

\* the default of `parseInt(process.env.IDEATION_TIME_LIMIT) || 60000`
DefaultTimeLimit == 60000

\* process.env.IDEATION_TIME_LIMIT is not set, or holds "0"
EnvTimeLimits == {<<>>, <<0>>}

\* `parseInt(value) || default`: NaN and 0 give the default
ParseIntOr(value, default) ==
    IF value = <<>> THEN default
    ELSE IF value[1] = 0 THEN default
    ELSE value[1]

\* this.timeLimit of the constructor; executeIdeationSession logs it (line
\* 60) and nothing else reads it
timeLimit == ParseIntOr(envTimeLimit, DefaultTimeLimit)

-----------------------------------------------------------------------------
(* cleanResponse *)

Whitespace == {"s", "n"}

RECURSIVE IndexFrom(_, _, _)
\* the least index i >= from with s[i] = tok, or 0
IndexFrom(s, tok, from) ==
    IF from > Len(s) THEN 0
    ELSE IF s[from] = tok THEN from
    ELSE IndexFrom(s, tok, from + 1)

RECURSIVE StripThink(_)
\* .replace(/<think>[\s\S]*?<\/think>/g, '')
StripThink(s) ==
    LET open == IndexFrom(s, "T", 1)
        close == IF open = 0 THEN 0 ELSE IndexFrom(s, "E", open + 1)
    IN IF open = 0 \/ close = 0 THEN s
       ELSE SubSeq(s, 1, open - 1) \o StripThink(SubSeq(s, close + 1, Len(s)))

RECURSIVE StripNotes(_, _)
\* .replace(/\*\*Note:.*$/gm, ''): from the marker to the end of its line
StripNotes(s, inNote) ==
    IF s = <<>> THEN <<>>
    ELSE IF Head(s) = "n" THEN <<"n">> \o StripNotes(Tail(s), FALSE)
    ELSE IF inNote \/ Head(s) = "N" THEN StripNotes(Tail(s), TRUE)
    ELSE <<Head(s)>> \o StripNotes(Tail(s), FALSE)

RECURSIVE SkipWhitespace(_)
SkipWhitespace(s) ==
    IF s # <<>> /\ Head(s) \in Whitespace THEN SkipWhitespace(Tail(s)) ELSE s

RECURSIVE StripRoles(_, _)
\* .replace(/^(Human|Assistant):\s*/gm, ''): a role prefix at the start of a
\* line, with the white space that follows it
StripRoles(s, lineStart) ==
    IF s = <<>> THEN <<>>
    ELSE IF lineStart /\ Head(s) = "R"
         THEN LET rest == SkipWhitespace(Tail(s))
                  consumed == Len(s) - Len(rest)
              IN StripRoles(rest, s[consumed] = "n")
    ELSE <<Head(s)>> \o StripRoles(Tail(s), Head(s) = "n")

RECURSIVE TrimEnd(_)
TrimEnd(s) ==
    IF s # <<>> /\ s[Len(s)] \in Whitespace
    THEN TrimEnd(SubSeq(s, 1, Len(s) - 1)) ELSE s

\* .trim()
Trim(s) == TrimEnd(SkipWhitespace(s))

cleanResponse(content) ==
    Trim(StripRoles(StripNotes(StripThink(content), FALSE), TRUE))

-----------------------------------------------------------------------------
(* The backend *)

\* response.data?.choices?.[0]?.message?.content of an answer
RawContents ==
    { <<"w">>,                    \* plain text
      <<"T", "w", "E", "w">>,     \* a reasoning trace, then text
      <<"T", "w", "E">>,          \* a reasoning trace only
      <<"s", "n">>,               \* white space only
      <<"R", "s">>,               \* a role prefix only
      <<>> }                      \* the empty string

\* what the awaited axios.post can do
BackendOutcomes ==
    [kind : {"timeout", "network_error", "http_error", "malformed"},
     content : {Null}]
    \cup [kind : {"answer"}, content : RawContents]

\* the call brings no text that is more than markup and white space
Faulty(outcome) ==
    \/ outcome.kind # "answer"
    \/ cleanResponse(outcome.content) = <<>>

\* Without a key the backend rejects every request or never answers.  With
\* a key, any call can have any outcome, up to MaxFaults faulty ones in a
\* session.
OutcomesFor(key, n) ==
    IF ~key THEN {o \in BackendOutcomes : o.kind \in {"http_error", "timeout"}}
    ELSE IF n < MaxFaults THEN BackendOutcomes
    ELSE {o \in BackendOutcomes : ~Faulty(o)}

Count(key, n, outcome) == IF key /\ Faulty(outcome) THEN n + 1 ELSE n

\* the time the call takes: the timeout of axios.post, or less
DurationsOf(outcome) ==
    IF outcome.kind = "timeout" THEN {CallTimeout} ELSE ResponseTimes

\* the backend call did not deliver a text
Failed(outcome) ==
    \/ outcome.kind # "answer"
    \/ outcome.content = <<>>

-----------------------------------------------------------------------------
(* executeAgent *)

\* JavaScript truthiness of a string or null
Truthy(text) == text # Null /\ text # <<>>

\* mutant: one text for all personas
getFallbackResponseGeneric(agentType, prompt) == <<"fallback">>

\* `For "${prompt}"` in the fallback texts: the prompt of the call is
\* quoted.  Of the quoted prompt the model keeps the headers of the report,
\* which the prompt of executeFinalSummary has as its task.
Quoted(prompt) ==
    LET tasks == {k \in 1..Len(prompt.sections) :
                     prompt.sections[k].label = <<"final", "task">>}
    IN IF tasks = {} THEN <<>>
       ELSE prompt.sections[CHOOSE k \in tasks : TRUE].text

\* fallbacks[agentType] || 'Technical difficulties prevented response
\* generation.'
getFallbackResponse(agentType, prompt) ==
    IF agentType \in agents THEN <<"fallback", agentType>> \o Quoted(prompt)
    ELSE <<"fallback">>

\* the try block of executeAgent throws: axios.post rejects, or
\* `if (!content) throw new Error('Empty response from AI model')`
Thrown(outcome) ==
    \/ outcome.kind \in {"timeout", "network_error", "http_error"}
    \/ ~Truthy(outcome.content)

\* mutant: the catch block throws the errors of axios.post again
CaughtAnswersOnly(outcome) == Thrown(outcome) /\ outcome.kind = "answer"

\* `catch (error) { ... return this.getFallbackResponse(...) }` takes every
\* error of the try block
Caught(outcome) == Thrown(outcome)

\* mutant: executeAgent without `if (!content) throw`
executeAgentReturnUnchecked(agentType, prompt, outcome) ==
    IF outcome.kind # "answer"
    THEN getFallbackResponse(agentType, prompt)
    ELSE cleanResponse(outcome.content)

\* what executeAgent returns after `await axios.post`
executeAgentReturn(agentType, prompt, outcome) ==
    IF Thrown(outcome)
    THEN getFallbackResponse(agentType, prompt)
    ELSE cleanResponse(outcome.content)

\* the part of executeAgent before `await axios.post`: the two checks
executeAgentThrows(agentType) ==
    \/ agentType \notin agents
    \/ Len(availableModels) = 0

-----------------------------------------------------------------------------
(* The session *)

\* { creative: null, logical: null, reasoning: null }
NoResults == [a \in agents |-> Null]

\* The array expansionResults is kept as its length and its last element:
\* the code only appends to it, and reads the earlier elements only to
\* print them into prompts.  The fields iteration and timestamp of an
\* element are only printed, and are left out.
NoEntry == [agent |-> None, content |-> Null]

EmptyExpansion == [length |-> 0, last |-> NoEntry]

\* expansionResults.push({agent, iteration, content, timestamp})
Push(er, agent, content) ==
    [length |-> er.length + 1,
     last |-> [agent |-> agent, content |-> content]]

\* mutant: the response is pushed after the next call has been issued
RecordDeferred(er, agent, response) == er

\* if (response) expansionResults.push(...)
Record(er, agent, response) ==
    IF Truthy(response) THEN Push(er, agent, response) ELSE er

\* `phase1_creative`, `phase2_${selectedAgent}`, ..., `final_summary`
PhaseName(prefix, agentType) == <<prefix, agentType>>

-----------------------------------------------------------------------------
(* The prompts.  A prompt is kept as the parts that the code prints into   *)
(* it: the sections that carry a text, in their order, and the entries of  *)
(* Phase 2.  The fixed wording between the parts is left out, and the      *)
(* conversation context of buildUserPrompt is taken to be empty.           *)

\* the `prompt` of executeIdeationSession
UserPrompt == <<"w">>

\* the headers that the task of executeFinalSummary asks for: "H" stands
\* for the five lines `## 1. EXECUTIVE SUMMARY` ... `## 5. NEXT STEPS &
\* ACTION PLAN`
ReportHeaders == <<"H">>

Section(label, text) == [label |-> label, text |-> text]

\* no prompt: no call is awaited
NoPrompt == [sections |-> <<>>, expansions |-> EmptyExpansion]

\* no axios.post is awaited
NoCall ==
    [agentType |-> None, phase |-> <<>>, prompt |-> NoPrompt, issuedAt |-> 0]

\* `Original request: "${prompt}"`
Original(prompt) == Section(<<"original", "request">>, prompt)

\* mutant: the placeholder is printed whatever the text is
OrElsePlaceholder(text, placeholder) == placeholder

\* `${text || placeholder}`
OrElse(text, placeholder) == IF Truthy(text) THEN text ELSE placeholder

\* `if (text) context += ...`
Optional(label, text) ==
    IF Truthy(text) THEN <<Section(label, text)>> ELSE <<>>

\* the three optional parts that print the results of a fixed-order phase
PhaseParts(prefix, res) ==
    Optional(PhaseName(prefix, "creative"), res["creative"])
    \o Optional(PhaseName(prefix, "logical"), res["logical"])
    \o Optional(PhaseName(prefix, "reasoning"), res["reasoning"])

\* the prompts of the three steps of executePhase1, with the results res
\* of the steps before
phase1Prompt(agentType, prompt, res) ==
    [sections |->
        CASE agentType = "creative" -> <<Original(prompt)>>
          [] agentType = "logical" ->
                <<Original(prompt),
                  Section(PhaseName("phase1", "creative"),
                          OrElse(res["creative"], <<"No creative output">>))>>
          [] agentType = "reasoning" ->
                <<Original(prompt),
                  Section(PhaseName("phase1", "creative"),
                          OrElse(res["creative"], <<"No creative output">>)),
                  Section(PhaseName("phase1", "logical"),
                          OrElse(res["logical"], <<"No logical evaluation">>))>>,
     expansions |-> EmptyExpansion]

\* mutant: only the foundation of Phase 1 is printed
buildExpansionContextFoundationOnly(prompt, phase1Results, er) ==
    [sections |-> <<Original(prompt)>> \o PhaseParts("phase1", phase1Results),
     expansions |-> EmptyExpansion]

buildExpansionContext(prompt, phase1Results, er) ==
    [sections |-> <<Original(prompt)>> \o PhaseParts("phase1", phase1Results),
     expansions |-> er]

\* mutant: the history without the expansions of Phase 2
buildRefinementContextPhase1Only(prompt, phase1Results, phase2Results) ==
    [sections |-> <<Original(prompt)>> \o PhaseParts("phase1", phase1Results),
     expansions |-> EmptyExpansion]

buildRefinementContext(prompt, phase1Results, phase2Results) ==
    [sections |-> <<Original(prompt)>> \o PhaseParts("phase1", phase1Results),
     expansions |-> phase2Results]

\* the prompts of the three steps of executePhase3, with the results res
\* of the steps before
phase3Prompt(agentType, refinementContext, res) ==
    [refinementContext EXCEPT !.sections = @ \o
        CASE agentType = "creative" -> <<>>
          [] agentType = "logical" ->
                <<Section(PhaseName("phase3", "creative"),
                          OrElse(res["creative"],
                                 <<"No refined creative output">>))>>
          [] agentType = "reasoning" ->
                <<Section(PhaseName("phase3", "creative"),
                          OrElse(res["creative"], <<"No creative output">>)),
                  Section(PhaseName("phase3", "logical"),
                          OrElse(res["logical"], <<"No logical assessment">>))>>]

\* summaryContext of executeFinalSummary
summaryContext(prompt, sr) ==
    [sections |-> <<Original(prompt)>>
                  \o PhaseParts("phase1", sr.phase1)
                  \o PhaseParts("phase3", sr.phase3)
                  \o <<Section(<<"final", "task">>, ReportHeaders)>>,
     expansions |-> sr.phase2]

-----------------------------------------------------------------------------
(* The loop of Phase 2 and the order of the phases *)

\* mutant: the loop without the iteration cap
Phase2ContinueNoCap(el, ic) == el < phase2TimeLimit

\* mutant: the loop without the deadline
Phase2ContinueNoDeadline(el, ic) == ic < MaxIterations

\* the condition of the while loop of executePhase2
Phase2Continue(el, ic) == el < phase2TimeLimit /\ ic < MaxIterations

\* mutant: the draw without the filter
AvailableAgentsAll(la) == {phase2Agents[i] : i \in 1..Len(phase2Agents)}

\* agents.filter(agent => agent !== lastAgent), of which one is drawn
AvailableAgents(la) == {phase2Agents[i] : i \in 1..Len(phase2Agents)} \ {la}

\* the position of a persona in the fixed sequence
StepOf(agentType) == CHOOSE k \in 1..Len(FixedOrder) : FixedOrder[k] = agentType

\* mutant: executePhase3 called before executePhase2
PhaseAfterSwapped(p) ==
    CASE p = "INIT" -> "PHASE1"
      [] p = "PHASE1" -> "PHASE3"
      [] p = "PHASE3" -> "PHASE2"
      [] p = "PHASE2" -> "PHASE4"
      [] p = "PHASE4" -> "DONE"
      [] OTHER -> p

\* the order of the calls in executeIdeationSession
PhaseAfter(p) ==
    CASE p = "INIT" -> "PHASE1"
      [] p = "PHASE1" -> "PHASE2"
      [] p = "PHASE2" -> "PHASE3"
      [] p = "PHASE3" -> "PHASE4"
      [] p = "PHASE4" -> "DONE"
      [] OTHER -> p

\* two calls of executeIdeationSession on one AgentOrchestrator
Sessions == {1, 2}

\* the local variables of an activation of executeIdeationSession and of
\* the phase it is in, as they are when the activation starts
NoFrame ==
    [results |-> NoResults, expansionResults |-> EmptyExpansion,
     lastAgent |-> None, iterationCount |-> 0, elapsed |-> 0,
     sessionResults |-> [phase1 |-> NoResults, phase2 |-> EmptyExpansion,
                         phase3 |-> NoResults],
     content |-> Null]

\* no call of executeIdeationSession has been made
TwoIdle ==
    /\ twoPc = [i \in Sessions |-> "INIT"]
    /\ twoCall = [i \in Sessions |-> NoCall]
    /\ frames = [i \in Sessions |-> NoFrame]
    /\ twoFaults = 0
\* no session has been registered
RegistryIdle ==
    /\ now = 0
    /\ ideationTimeLimit = <<>>
    /\ activeSessions = {}
    /\ timers = {}
    /\ started = <<>>

\* the requests of the chat controller
ChatRequests == {1, 2}

\* no answer has been sent
NoAnswer == [status |-> 0, body |-> Null]

\* the history manager has been constructed and no request has come
ChatIdle ==
    /\ history = <<>>
    /\ historyFile = [exists |-> FALSE, data |-> <<>>]
    /\ initializing = TRUE
    /\ chat = [r \in ChatRequests |-> [at |-> "NEW", answer |-> NoAnswer]]

\* the socket is connected and has sent no message
SocketIdle ==
    /\ socketQueue = <<>>
    /\ socketMessages = <<>>
    /\ chains = <<>>

\* the connection of the legacy socket server has sent no message
LegacyIdle ==
    /\ messageQueue = <<>>
    /\ isProcessing = FALSE
    /\ inProcess = {}
    /\ arrived = 0

\* what a call of getAgentResponse that has not settled gave: nothing
NotServed == [kind |-> "none"]

\* getAgentResponse was never called
CacheIdle ==
    /\ serviceAgents = "undefined"
    /\ responseCache = {}
    /\ cachePending = {}
    /\ cacheNow = 0
    /\ cacheCalls = 0
    /\ lastServed = NotServed

\* the other components have done nothing
RestIdle ==
    RegistryIdle /\ ChatIdle /\ SocketIdle /\ LegacyIdle /\ CacheIdle

\* no ideation session has been requested
OrchestratorIdle ==
    /\ TwoIdle
    /\ envTimeLimit = <<>>
    /\ apiKey = TRUE
    /\ availableModels = ConfiguredModels
    /\ pc = "INIT"
    /\ inflight = NoCall
    /\ results = NoResults
    /\ expansionResults = EmptyExpansion
    /\ lastAgent = None
    /\ iterationCount = 0
    /\ elapsed = 0
    /\ sessionResults = NoFrame.sessionResults
    /\ finalResult = [content |-> Null, totalPhases |-> 0]
    /\ requests = [p \in 1..totalPhases |-> 0]
    /\ lastReturn = [agentType |-> None, failed |-> FALSE, content |-> Null]
    /\ phase2Duration = 0
    /\ faults = 0

Init ==
    /\ RestIdle
    /\ TwoIdle
    /\ envTimeLimit = <<>>
    /\ apiKey \in BOOLEAN
    /\ availableModels \in {<<>>, ConfiguredModels}
    /\ pc = "INIT"
    /\ inflight = NoCall
    /\ results = NoResults
    /\ expansionResults = EmptyExpansion
    /\ lastAgent = None
    /\ iterationCount = 0
    /\ elapsed = 0
    /\ sessionResults = [phase1 |-> NoResults, phase2 |-> EmptyExpansion,
                         phase3 |-> NoResults]
    /\ finalResult = [content |-> Null, totalPhases |-> 0]
    /\ requests = [p \in 1..totalPhases |-> 0]
    /\ lastReturn = [agentType |-> None, failed |-> FALSE, content |-> Null]
    /\ phase2Duration = 0
    /\ faults = 0

\* executeAgent sending its request a second time
CallTwice(agentType, phase, prompt, p, target) ==
    IF executeAgentThrows(agentType)
    THEN /\ pc' = "FAILED"
         /\ inflight' = NoCall
         /\ UNCHANGED requests
    ELSE /\ pc' = target
         /\ inflight' = [agentType |-> agentType, phase |-> phase,
                         prompt |-> prompt, issuedAt |-> elapsed']
         /\ requests' = [requests EXCEPT ![p] = @ + 2]

\* executeAgent up to its await: it throws, and executeIdeationSession with
\* it, or it issues the request of phase number p with the prompt and the
\* session waits in state target
Call(agentType, phase, prompt, p, target) ==
    IF executeAgentThrows(agentType)
    THEN /\ pc' = "FAILED"
         /\ inflight' = NoCall
         /\ UNCHANGED requests
    ELSE /\ pc' = target
         /\ inflight' = [agentType |-> agentType, phase |-> phase,
                         prompt |-> prompt, issuedAt |-> elapsed']
         /\ requests' = [requests EXCEPT ![p] = @ + 1]

\* executeAgent returns
Return(outcome) ==
    /\ lastReturn' = [agentType |-> inflight.agentType,
                      failed |-> Failed(outcome),
                      content |-> executeAgentReturn(inflight.agentType,
                                                     inflight.prompt, outcome)]
    /\ faults' = Count(apiKey, faults, outcome)

\* an error leaves executeAgent: `catch (error)` of executeIdeationSession
\* throws 'Ideation session failed'
Abort ==
    /\ pc' = "FAILED"
    /\ inflight' = NoCall
    /\ UNCHANGED <<results, expansionResults, lastAgent, iterationCount,
                   elapsed, sessionResults, finalResult, requests,
                   lastReturn, phase2Duration, faults>>

\* executeIdeationSession is called: executePhase1 up to its first await
StartSession ==
    /\ pc = "INIT"
    /\ elapsed' = elapsed
    /\ Call(FixedOrder[1], PhaseName("phase1", FixedOrder[1]),
            phase1Prompt(FixedOrder[1], UserPrompt, NoResults), 1,
            PhaseAfter("INIT"))
    /\ UNCHANGED <<apiKey, availableModels, results, expansionResults,
                   lastAgent, iterationCount, sessionResults, finalResult,
                   lastReturn, phase2Duration, faults>>

\* executePhase3 up to its first await
StartPhase3 ==
    /\ results' = NoResults
    /\ Call(FixedOrder[1], PhaseName("phase3", FixedOrder[1]),
            phase3Prompt(FixedOrder[1],
                         buildRefinementContext(UserPrompt,
                                                sessionResults'.phase1,
                                                sessionResults'.phase2),
                         NoResults),
            3, PhaseAfter("PHASE2"))

\* the loop of executePhase2 from its condition on, with the values sr of
\* sessionResults, res of the results of Phase 1, er of expansionResults, la
\* of lastAgent, ic of iterationCount and the time el since startTime: the
\* next iteration up to its await, or the return of executePhase2 and
\* executePhase3 up to its first await
Phase2Loop(sr, res, er, la, ic, el) ==
    IF Phase2Continue(el, ic)
    THEN \E selectedAgent \in AvailableAgents(la) :
            /\ iterationCount' = ic + 1
            /\ lastAgent' = la
            /\ elapsed' = el
            /\ expansionResults' = er
            /\ sessionResults' = sr
            /\ Call(selectedAgent, PhaseName("phase2", selectedAgent),
                    buildExpansionContext(UserPrompt, res, er), 2, "PHASE2")
            /\ results' = res
            /\ UNCHANGED phase2Duration
    ELSE /\ sessionResults' = [sr EXCEPT !.phase2 = er]
         /\ phase2Duration' = el
         /\ iterationCount' = 0
         /\ lastAgent' = None
         /\ elapsed' = 0
         /\ expansionResults' = EmptyExpansion
         /\ StartPhase3

\* a step of executePhase1 returns and the next one is called; after the
\* last one executePhase1 returns and executePhase2 starts
Phase1Step ==
    /\ pc = "PHASE1"
    /\ inflight # NoCall
    /\ \E outcome \in OutcomesFor(apiKey, faults) :
        IF Thrown(outcome) /\ ~Caught(outcome) THEN Abort
        ELSE
        LET k == StepOf(inflight.agentType)
            res == [results EXCEPT ![inflight.agentType] =
                        executeAgentReturn(inflight.agentType,
                                           inflight.prompt, outcome)]
        IN /\ Return(outcome)
           /\ IF k < Len(FixedOrder)
              THEN /\ results' = res
                   /\ elapsed' = elapsed
                   /\ Call(FixedOrder[k + 1],
                           PhaseName("phase1", FixedOrder[k + 1]),
                           phase1Prompt(FixedOrder[k + 1], UserPrompt, res),
                           1, "PHASE1")
                   /\ UNCHANGED <<expansionResults, lastAgent, iterationCount,
                                  sessionResults, phase2Duration>>
              ELSE Phase2Loop([sessionResults EXCEPT !.phase1 = res], res,
                              EmptyExpansion, None, 0, 0)
           /\ UNCHANGED finalResult
    /\ UNCHANGED <<apiKey, availableModels>>

\* an iteration of executePhase2 returns: the response is recorded and the
\* loop goes on or ends
Phase2Step ==
    /\ pc = "PHASE2"
    /\ inflight # NoCall
    /\ \E outcome \in OutcomesFor(apiKey, faults) :
        \E duration \in DurationsOf(outcome) :
        IF Thrown(outcome) /\ ~Caught(outcome) THEN Abort
        ELSE
        LET selectedAgent == inflight.agentType
            response == executeAgentReturn(selectedAgent, inflight.prompt,
                                           outcome)
        IN /\ Return(outcome)
           /\ Phase2Loop(sessionResults, results,
                         Record(expansionResults, selectedAgent, response),
                         selectedAgent, iterationCount, elapsed + duration)
           /\ UNCHANGED finalResult
    /\ UNCHANGED <<apiKey, availableModels>>

\* a step of executePhase3 returns and the next one is called; after the
\* last one executePhase3 returns and executeFinalSummary issues its call
Phase3Step ==
    /\ pc = "PHASE3"
    /\ inflight # NoCall
    /\ \E outcome \in OutcomesFor(apiKey, faults) :
        IF Thrown(outcome) /\ ~Caught(outcome) THEN Abort
        ELSE
        LET k == StepOf(inflight.agentType)
            res == [results EXCEPT ![inflight.agentType] =
                        executeAgentReturn(inflight.agentType,
                                           inflight.prompt, outcome)]
        IN /\ Return(outcome)
           /\ results' = res
           /\ elapsed' = elapsed
           /\ IF k < Len(FixedOrder)
              THEN /\ Call(FixedOrder[k + 1],
                           PhaseName("phase3", FixedOrder[k + 1]),
                           phase3Prompt(FixedOrder[k + 1],
                                        buildRefinementContext(
                                            UserPrompt, sessionResults.phase1,
                                            sessionResults.phase2),
                                        res),
                           3, "PHASE3")
                   /\ UNCHANGED sessionResults
              ELSE /\ sessionResults' = [sessionResults EXCEPT !.phase3 = res]
                   /\ Call("reasoning", PhaseName("final", "summary"),
                           summaryContext(UserPrompt, sessionResults'),
                           4, PhaseAfter("PHASE3"))
           /\ UNCHANGED <<expansionResults, lastAgent, iterationCount,
                          finalResult, phase2Duration>>
    /\ UNCHANGED <<apiKey, availableModels>>

\* the text has every header that the task of executeFinalSummary asks for
HasHeaders(text) ==
    \A k \in 1..Len(ReportHeaders) :
        \E i \in 1..Len(text) : text[i] = ReportHeaders[k]

\* what the call of executeFinalSummary can bring: the outcomes of any call,
\* and from a backend that answers, the report with the headers asked for
SummaryOutcomes(key, n) ==
    OutcomesFor(key, n) \cup
        (IF key THEN {[kind |-> "answer", content |-> ReportHeaders \o <<"w">>]}
         ELSE {})

\* the call of executeFinalSummary returns, and executeIdeationSession
\* returns { content, sessionData: sessionResults, totalPhases: 4 }
Phase4Step ==
    /\ pc = "PHASE4"
    /\ inflight # NoCall
    /\ \E outcome \in SummaryOutcomes(apiKey, faults) :
        IF Thrown(outcome) /\ ~Caught(outcome) THEN Abort
        ELSE
        /\ Return(outcome)
        /\ finalResult' =
              [content |-> executeAgentReturn(inflight.agentType,
                                              inflight.prompt, outcome),
               totalPhases |-> totalPhases]
        /\ pc' = PhaseAfter("PHASE4")
        /\ inflight' = NoCall
        /\ UNCHANGED <<results, expansionResults, lastAgent, iterationCount,
                       elapsed, sessionResults, requests, phase2Duration>>
    /\ UNCHANGED <<apiKey, availableModels>>

\* generateFallbackResponse of MagenticOneService: an apology that quotes
\* the message
generateFallbackResponse(message) == <<"apology">> \o message

\* what processIdeationMessage of MagenticOneService gives its caller for
\* the session: nothing yet, or `result.content`, or from its catch block
\* the text of generateFallbackResponse; it throws nothing
processIdeationMessage(message) ==
    IF pc = "DONE"
    THEN [settled |-> TRUE, thrown |-> FALSE, value |-> finalResult.content]
    ELSE IF pc = "FAILED"
    THEN [settled |-> TRUE, thrown |-> FALSE,
          value |-> generateFallbackResponse(message)]
    ELSE [settled |-> FALSE, thrown |-> FALSE, value |-> Null]

\* the files that define the class MagenticOneService
ServiceFiles == {"part_011", "magenticOneService.js"}

\* the definitions of processIdeationMessage in the class body, in their
\* order: the one that awaits executeIdeationSession (line 42 of both
\* files), and in magenticOneService.js the one of the parallel flow (line
\* 350)
DefinitionsOf(file) ==
    IF file = "part_011" THEN <<"orchestrator">>
    ELSE <<"orchestrator", "parallel">>

\* a class body that defines a method twice keeps the last definition
MethodOf(file) == DefinitionsOf(file)[Len(DefinitionsOf(file))]

\* processIdeationMessage of lines 350-436 of magenticOneService.js: its
\* first getAgentResponse reads this.agents[agentType] (line 440), the
\* constructor (lines 8-21) sets no this.agents, the TypeError has no code
\* and no 'timeout' in its message, so getAgentResponse throws it again
\* (line 545) and so does the catch block of processIdeationMessage (line
\* 434)
processIdeationMessageParallel(message) ==
    IF pc = "INIT"
    THEN [settled |-> FALSE, thrown |-> FALSE, value |-> Null]
    ELSE [settled |-> TRUE, thrown |-> TRUE, value |-> <<"TypeError">>]

\* what a caller of service.processIdeationMessage gets from the class of
\* the file
ServiceResult(file, message) ==
    IF MethodOf(file) = "orchestrator" THEN processIdeationMessage(message)
    ELSE processIdeationMessageParallel(message)

Next ==
    \/ StartSession /\ UNCHANGED <<twoVars, restVars>>
    \/ Phase1Step /\ UNCHANGED <<twoVars, restVars>>
    \/ Phase2Step /\ UNCHANGED <<twoVars, restVars>>
    \/ Phase3Step /\ UNCHANGED <<twoVars, restVars>>
    \/ Phase4Step /\ UNCHANGED <<twoVars, restVars>>

Spec == Init /\ [][Next]_vars

-----------------------------------------------------------------------------
(* Two sessions on one service instance: MagenticOneService holds one      *)
(* AgentOrchestrator (constructor, line 9) and processIdeationMessage      *)
(* (lines 42-50) calls its executeIdeationSession for every request.  The  *)
(* orchestrator writes no field of `this` after its constructor, and      *)
(* this path does not read or write responseCache.  A text is marked with  *)
(* the session whose call produced it.                                     *)

\* bound of the model: the failing calls of the two sessions together
MaxFaultsTwo == 1

\* the mark of session i
Tag(i) == IF i = 1 THEN "of1" ELSE "of2"

\* the `prompt` that the i-th call of executeIdeationSession is given
PromptOf(i) == <<"w", Tag(i)>>

\* mutant: the variables are fields of the orchestrator
SlotShared(i) == CHOOSE j \in Sessions : \A k \in Sessions : j <= k

\* where the variables of session i are: `let sessionResults`, `let results`,
\* `let expansionResults`, ... are local to the activation
Slot(i) == i

\* the backend answers the call of session i, or the call times out
TwoOutcomes(i, n) ==
    {[kind |-> "answer", content |-> <<"T", "w", "E", "w", Tag(i)>>]}
    \cup (IF n < MaxFaultsTwo
          THEN {[kind |-> "timeout", content |-> Null]} ELSE {})

\* an answer takes the longest of the response times
TwoDurations(outcome) ==
    IF outcome.kind = "timeout" THEN {CallTimeout}
    ELSE {t \in ResponseTimes : \A u \in ResponseTimes : u <= t}

\* what executeAgent returns to session i; the fallback text quotes the
\* prompt of the call
TwoReturn(i, agentType, outcome) ==
    IF Thrown(outcome)
    THEN getFallbackResponse(agentType, twoCall[i].prompt) \o <<Tag(i)>>
    ELSE executeAgentReturn(agentType, twoCall[i].prompt, outcome)

\* executeAgent up to its await, called by session i
TwoCallOf(i, agentType, phase, prompt, issuedAt, target) ==
    IF executeAgentThrows(agentType)
    THEN /\ twoPc' = [twoPc EXCEPT ![i] = "FAILED"]
         /\ twoCall' = [twoCall EXCEPT ![i] = NoCall]
    ELSE /\ twoPc' = [twoPc EXCEPT ![i] = target]
         /\ twoCall' = [twoCall EXCEPT ![i] =
                           [agentType |-> agentType, phase |-> phase,
                            prompt |-> prompt, issuedAt |-> issuedAt]]

TwoCount(n, outcome) == IF Thrown(outcome) THEN n + 1 ELSE n

TwoInit ==
    /\ RestIdle
    /\ TwoIdle
    /\ envTimeLimit \in EnvTimeLimits
    /\ apiKey = TRUE
    /\ availableModels \in {<<>>, ConfiguredModels}
    /\ pc = "INIT"
    /\ inflight = NoCall
    /\ results = NoResults
    /\ expansionResults = EmptyExpansion
    /\ lastAgent = None
    /\ iterationCount = 0
    /\ elapsed = 0
    /\ sessionResults = NoFrame.sessionResults
    /\ finalResult = [content |-> Null, totalPhases |-> 0]
    /\ requests = [p \in 1..totalPhases |-> 0]
    /\ lastReturn = [agentType |-> None, failed |-> FALSE, content |-> Null]
    /\ phase2Duration = 0
    /\ faults = 0

\* session i calls executeIdeationSession: executePhase1 up to its await
TwoStart(i) ==
    /\ twoPc[i] = "INIT"
    /\ frames' = [frames EXCEPT ![Slot(i)] = NoFrame]
    /\ TwoCallOf(i, FixedOrder[1], PhaseName("phase1", FixedOrder[1]),
                 phase1Prompt(FixedOrder[1], PromptOf(i), NoResults),
                 0, PhaseAfter("INIT"))
    /\ UNCHANGED <<twoFaults, envTimeLimit, vars, restVars>>

\* the loop of executePhase2 of session i from its condition on, with the
\* variables f
TwoPhase2Loop(i, f) ==
    IF Phase2Continue(f.elapsed, f.iterationCount)
    THEN \E selectedAgent \in AvailableAgents(f.lastAgent) :
            /\ frames' = [frames EXCEPT ![Slot(i)] =
                             [f EXCEPT !.iterationCount = @ + 1]]
            /\ TwoCallOf(i, selectedAgent, PhaseName("phase2", selectedAgent),
                         buildExpansionContext(PromptOf(i),
                                               f.sessionResults.phase1,
                                               f.expansionResults),
                         f.elapsed, "PHASE2")
    ELSE LET g == [f EXCEPT !.sessionResults.phase2 = f.expansionResults,
                            !.results = NoResults,
                            !.expansionResults = EmptyExpansion,
                            !.lastAgent = None,
                            !.iterationCount = 0,
                            !.elapsed = 0]
         IN /\ frames' = [frames EXCEPT ![Slot(i)] = g]
            /\ TwoCallOf(i, FixedOrder[1],
                         PhaseName("phase3", FixedOrder[1]),
                         phase3Prompt(FixedOrder[1],
                                      buildRefinementContext(
                                          PromptOf(i),
                                          g.sessionResults.phase1,
                                          g.sessionResults.phase2),
                                      NoResults),
                         0, PhaseAfter("PHASE2"))

\* a step of executePhase1 of session i returns
TwoPhase1Step(i) ==
    /\ twoPc[i] = "PHASE1"
    /\ \E outcome \in TwoOutcomes(i, twoFaults) :
        LET f == frames[Slot(i)]
            agentType == twoCall[i].agentType
            k == StepOf(agentType)
            res == [f.results EXCEPT ![agentType] =
                        TwoReturn(i, agentType, outcome)]
        IN /\ twoFaults' = TwoCount(twoFaults, outcome)
           /\ IF k < Len(FixedOrder)
              THEN /\ frames' = [frames EXCEPT ![Slot(i)] =
                                    [f EXCEPT !.results = res]]
                   /\ TwoCallOf(i, FixedOrder[k + 1],
                                PhaseName("phase1", FixedOrder[k + 1]),
                                phase1Prompt(FixedOrder[k + 1], PromptOf(i),
                                             res),
                                0, "PHASE1")
              ELSE TwoPhase2Loop(i, [f EXCEPT !.results = res,
                                              !.sessionResults.phase1 = res,
                                              !.expansionResults =
                                                  EmptyExpansion,
                                              !.lastAgent = None,
                                              !.iterationCount = 0,
                                              !.elapsed = 0])
    /\ UNCHANGED <<envTimeLimit, vars, restVars>>

\* an iteration of executePhase2 of session i returns
TwoPhase2Step(i) ==
    /\ twoPc[i] = "PHASE2"
    /\ \E outcome \in TwoOutcomes(i, twoFaults) :
        \E duration \in TwoDurations(outcome) :
        LET f == frames[Slot(i)]
            selectedAgent == twoCall[i].agentType
            response == TwoReturn(i, selectedAgent, outcome)
        IN /\ twoFaults' = TwoCount(twoFaults, outcome)
           /\ TwoPhase2Loop(i, [f EXCEPT
                                 !.expansionResults =
                                     Record(@, selectedAgent, response),
                                 !.lastAgent = selectedAgent,
                                 !.elapsed = @ + duration])
    /\ UNCHANGED <<envTimeLimit, vars, restVars>>

\* a step of executePhase3 of session i returns
TwoPhase3Step(i) ==
    /\ twoPc[i] = "PHASE3"
    /\ \E outcome \in TwoOutcomes(i, twoFaults) :
        LET f == frames[Slot(i)]
            agentType == twoCall[i].agentType
            k == StepOf(agentType)
            res == [f.results EXCEPT ![agentType] =
                        TwoReturn(i, agentType, outcome)]
        IN /\ twoFaults' = TwoCount(twoFaults, outcome)
           /\ IF k < Len(FixedOrder)
              THEN /\ frames' = [frames EXCEPT ![Slot(i)] =
                                    [f EXCEPT !.results = res]]
                   /\ TwoCallOf(i, FixedOrder[k + 1],
                                PhaseName("phase3", FixedOrder[k + 1]),
                                phase3Prompt(FixedOrder[k + 1],
                                             buildRefinementContext(
                                                 PromptOf(i),
                                                 f.sessionResults.phase1,
                                                 f.sessionResults.phase2),
                                             res),
                                0, "PHASE3")
              ELSE LET g == [f EXCEPT !.results = res,
                                      !.sessionResults.phase3 = res]
                   IN /\ frames' = [frames EXCEPT ![Slot(i)] = g]
                      /\ TwoCallOf(i, "reasoning",
                                   PhaseName("final", "summary"),
                                   summaryContext(PromptOf(i),
                                                  g.sessionResults),
                                   0, PhaseAfter("PHASE3"))
    /\ UNCHANGED <<envTimeLimit, vars, restVars>>

\* the call of executeFinalSummary of session i returns, and with it
\* executeIdeationSession
TwoPhase4Step(i) ==
    /\ twoPc[i] = "PHASE4"
    /\ \E outcome \in TwoOutcomes(i, twoFaults) :
        /\ twoFaults' = TwoCount(twoFaults, outcome)
        /\ frames' = [frames EXCEPT ![Slot(i)].content =
                         TwoReturn(i, twoCall[i].agentType, outcome)]
        /\ twoPc' = [twoPc EXCEPT ![i] = PhaseAfter("PHASE4")]
        /\ twoCall' = [twoCall EXCEPT ![i] = NoCall]
    /\ UNCHANGED <<envTimeLimit, vars, restVars>>

TwoNext ==
    \/ \E i \in Sessions : TwoStart(i)
    \/ \E i \in Sessions : TwoPhase1Step(i)
    \/ \E i \in Sessions : TwoPhase2Step(i)
    \/ \E i \in Sessions : TwoPhase3Step(i)
    \/ \E i \in Sessions : TwoPhase4Step(i)

SpecTwo == TwoInit /\ [][TwoNext]_twoVars

-----------------------------------------------------------------------------
(* The active sessions of MagenticOneService: startIdeationSession,        *)
(* endIdeationSession and getActiveSessions (magenticOneService.js lines   *)
(* 774-796, the same text in part_012 lines 329-351).  Time is Date.now()  *)
(* in milliseconds; a timer runs its callback when it is due, before the   *)
(* clock goes on.                                                          *)

\* bound of the model: the calls of startIdeationSession
MaxStarts == 3

\* bound of the model: the clock is followed millisecond by millisecond for
\* this long after a full second, and from there on to the next timer
MaxMs == 2

\* the agent types that the callers of startIdeationSession pass
StartAgents == {"reasoning", "creative"}

\* this.ideationTimeLimit: not set by the constructor of magenticOneService.js
\* (lines 8-21); `config.SETTINGS.ideationTimeLimit || 10` in part_012 (line
\* 12), where src/src/config/config.js has 10
IdeationTimeLimits == {<<>>, <<10>>}

\* SETTINGS.ideationTimeLimit of src/src/backend/config/config.js when the
\* environment sets none, in seconds
ConfiguredTimeLimit == 30

\* the delay of the timer, `this.ideationTimeLimit * 1000`: undefined * 1000
\* is NaN, and setTimeout takes a delay that is NaN as 1 ms
Delay(limit) == IF limit = <<>> THEN 1 ELSE limit[1] * 1000

\* the ideation time limit in ms: the one of the instance, or the configured
\* one where the instance has none
TimeLimitMs ==
    IF ideationTimeLimit = <<>> THEN ConfiguredTimeLimit * 1000
    ELSE ideationTimeLimit[1] * 1000

\* mutant: startIdeationSession without its setTimeout
SetTimeoutNone(ts, handle, sessionId, delay) == ts

\* setTimeout(() => this.endIdeationSession(sessionId), delay)
SetTimeout(ts, handle, sessionId, delay) ==
    ts \cup {[handle |-> handle, sessionId |-> sessionId, due |-> now + delay]}

\* this.activeSessions.set(sessionId, {...}): an entry with the key is
\* replaced
MapSet(map, entry) == {e \in map : e.id # entry.id} \cup {entry}

\* this.activeSessions.get(sessionId), as the set of the entries found
MapGet(map, sessionId) == {e \in map : e.id = sessionId}

\* Array.from(this.activeSessions.values())
getActiveSessions ==
    {[agentType |-> e.agentType, startTime |-> e.startTime,
      timer |-> e.timer] : e \in activeSessions}

\* endIdeationSession(sessionId) on the timers ts: an entry with the key has
\* its timer cleared and is deleted
endIdeationSession(ts, sessionId) ==
    /\ timers' = {t \in ts : \A e \in MapGet(activeSessions, sessionId) :
                                t.handle # e.timer}
    /\ activeSessions' = activeSessions \ MapGet(activeSessions, sessionId)

\* startIdeationSession(agentType): the id is Date.now().toString()
StartIdeation(agentType) ==
    /\ Len(started) < MaxStarts
    /\ LET sessionId == now
           handle == Len(started) + 1
       IN /\ activeSessions' =
                MapSet(activeSessions,
                       [id |-> sessionId, agentType |-> agentType,
                        startTime |-> now, timer |-> handle])
          /\ timers' = SetTimeout(timers, handle, sessionId,
                                  Delay(ideationTimeLimit))
          /\ started' = Append(started,
                               [id |-> sessionId, agentType |-> agentType,
                                startTime |-> now, timer |-> handle,
                                fate |-> "active"])
    /\ UNCHANGED <<now, ideationTimeLimit>>

\* the caller of the k-th startIdeationSession ends its session with the id
\* it was given
EndIdeation(k) ==
    /\ started[k].fate = "active"
    /\ endIdeationSession(timers, started[k].id)
    /\ started' = [started EXCEPT ![k].fate = "ended"]
    /\ UNCHANGED <<now, ideationTimeLimit>>

\* the callback of a timer that is due runs
TimerFires(t) ==
    /\ t.due <= now
    /\ endIdeationSession(timers \ {t}, t.sessionId)
    /\ started' = [started EXCEPT ![t.handle].fate =
                      IF @ = "active" THEN "timedout" ELSE @]
    /\ UNCHANGED <<now, ideationTimeLimit>>

\* the instants the clock can go on to
NextInstants ==
    (IF now % 1000 < MaxMs THEN {now + 1} ELSE {})
        \cup {t.due : t \in {u \in timers : \A v \in timers : u.due <= v.due}}

\* time passes, up to the next timer
Tick ==
    /\ \A t \in timers : now < t.due
    /\ \E instant \in NextInstants : now' = instant
    /\ UNCHANGED <<ideationTimeLimit, activeSessions, timers, started>>

RegistryInit ==
    /\ OrchestratorIdle
    /\ ChatIdle
    /\ SocketIdle
    /\ LegacyIdle
    /\ CacheIdle
    /\ now = 0
    /\ ideationTimeLimit \in IdeationTimeLimits
    /\ activeSessions = {}
    /\ timers = {}
    /\ started = <<>>

RegistryNext ==
    \/ \E agentType \in StartAgents :
          StartIdeation(agentType) /\ UNCHANGED <<vars, twoVars, chatVars, socketVars, legacyVars, cacheVars>>
    \/ \E k \in 1..Len(started) : EndIdeation(k) /\ UNCHANGED <<vars, twoVars, chatVars, socketVars, legacyVars, cacheVars>>
    \/ \E t \in timers : TimerFires(t) /\ UNCHANGED <<vars, twoVars, chatVars, socketVars, legacyVars, cacheVars>>
    \/ Tick /\ UNCHANGED <<vars, twoVars, chatVars, socketVars, legacyVars, cacheVars>>

SpecRegistry == RegistryInit /\ [][RegistryNext]_registryVars

-----------------------------------------------------------------------------
(* The chat controller (chatController.js lines 4-49) with the history     *)
(* manager (historyManager.js).  The constructor of HistoryManager calls   *)
(* the async initialize() and does not wait for it.  A step is the code    *)
(* between two awaits.                                                     *)

\* the history that an earlier run has left in the file
OldHistory == <<[role |-> "user", content |-> <<"old">>]>>

\* req.body.message of request r, where it has one
MessageOf(r) == <<"m", r>>

\* what processMessage resolves with for request r
ResponseOf(r) == <<"r", r>>

\* the entry that addMessage pushes; the timestamp is left out
Entry(role, content) == [role |-> role, content |-> content]

\* addMessage up to its await: this.history.push(message)
addMessage(h, role, content) == Append(h, Entry(role, content))

\* res.status(code).json(body) ends the request
Answer(r, status, body) ==
    chat' = [chat EXCEPT ![r] = [at |-> "SENT",
                                 answer |-> [status |-> status, body |-> body]]]

\* the request waits at the next await
WaitAt(r, at) == chat' = [chat EXCEPT ![r].at = at]

\* initialize() returns: it has read the file into this.history, or found
\* no file (ENOENT) and saved this.history
InitializeReturns ==
    /\ initializing
    /\ initializing' = FALSE
    /\ IF historyFile.exists
       THEN /\ history' = historyFile.data
            /\ UNCHANGED historyFile
       ELSE /\ historyFile' = [exists |-> TRUE, data |-> history]
            /\ UNCHANGED history
    /\ UNCHANGED chat

\* sendMessage is called without a message: status 400
sendMessageEmpty(r) ==
    /\ chat[r].at = "NEW"
    /\ Answer(r, 400, <<"Message is required">>)
    /\ UNCHANGED <<history, historyFile, initializing>>

\* sendMessage is called with a message: addMessage('user', message) up to
\* its await of saveHistory
sendMessage(r) ==
    /\ chat[r].at = "NEW"
    /\ history' = addMessage(history, "user", MessageOf(r))
    /\ WaitAt(r, "SAVE_USER")
    /\ UNCHANGED <<historyFile, initializing>>

\* saveHistory of the user message returns: processMessage is called, or
\* the error of fs.writeFile is answered with status 500
UserSaved(r) ==
    /\ chat[r].at = "SAVE_USER"
    /\ \E written \in BOOLEAN :
        IF written
        THEN /\ historyFile' = [exists |-> TRUE, data |-> history]
             /\ WaitAt(r, "PROCESS")
        ELSE /\ Answer(r, 500, <<"Failed to process message">>)
             /\ UNCHANGED historyFile
    /\ UNCHANGED <<history, initializing>>

\* processMessage returns: addMessage('assistant', response) up to its
\* await, or the rejection is answered with status 500
Processed(r) ==
    /\ chat[r].at = "PROCESS"
    /\ \E resolved \in BOOLEAN :
        IF resolved
        THEN /\ history' = addMessage(history, "assistant", ResponseOf(r))
             /\ WaitAt(r, "SAVE_ASSISTANT")
        ELSE /\ Answer(r, 500, <<"Failed to process message">>)
             /\ UNCHANGED history
    /\ UNCHANGED <<historyFile, initializing>>

\* saveHistory of the response returns: res.json({ response })
AssistantSaved(r) ==
    /\ chat[r].at = "SAVE_ASSISTANT"
    /\ \E written \in BOOLEAN :
        IF written
        THEN /\ historyFile' = [exists |-> TRUE, data |-> history]
             /\ Answer(r, 200, ResponseOf(r))
        ELSE /\ Answer(r, 500, <<"Failed to process message">>)
             /\ UNCHANGED historyFile
    /\ UNCHANGED <<history, initializing>>

ChatInit ==
    /\ OrchestratorIdle
    /\ RegistryIdle
    /\ SocketIdle
    /\ LegacyIdle
    /\ CacheIdle
    /\ history = <<>>
    /\ historyFile \in {[exists |-> FALSE, data |-> <<>>],
                        [exists |-> TRUE, data |-> OldHistory]}
    /\ initializing = TRUE
    /\ chat = [r \in ChatRequests |-> [at |-> "NEW", answer |-> NoAnswer]]

ChatNext ==
    \/ InitializeReturns /\ UNCHANGED <<vars, twoVars, registryVars, socketVars, legacyVars, cacheVars>>
    \/ \E r \in ChatRequests :
          sendMessageEmpty(r) /\ UNCHANGED <<vars, twoVars, registryVars, socketVars, legacyVars, cacheVars>>
    \/ \E r \in ChatRequests :
          sendMessage(r) /\ UNCHANGED <<vars, twoVars, registryVars, socketVars, legacyVars, cacheVars>>
    \/ \E r \in ChatRequests :
          UserSaved(r) /\ UNCHANGED <<vars, twoVars, registryVars, socketVars, legacyVars, cacheVars>>
    \/ \E r \in ChatRequests :
          Processed(r) /\ UNCHANGED <<vars, twoVars, registryVars, socketVars, legacyVars, cacheVars>>
    \/ \E r \in ChatRequests :
          AssistantSaved(r) /\ UNCHANGED <<vars, twoVars, registryVars, socketVars, legacyVars, cacheVars>>

SpecChat == ChatInit /\ [][ChatNext]_chatVars

-----------------------------------------------------------------------------
(* The message queue of SocketService (part_013 lines 42-96) for one       *)
(* socket.  addToQueue pushes the message and calls processQueue; every    *)
(* call of processQueue is an activation of its own that reads the head of *)
(* the queue.  A step is the code between two awaits.                      *)

\* bound of the model: the messages that the socket sends
MaxMessages == 2

\* `if (message.retries < 3)`
MaxRetries == 3

\* the message object that addToQueue pushes, and what has been done with
\* it: the calls of processMessage, those that returned, the error events
Queued(valid) ==
    [valid |-> valid, retries |-> 0, attempts |-> 0, done |-> 0,
     failed |-> 0, rejected |-> 0]

\* queue.shift()
Shift(queue) == IF queue = <<>> THEN queue ELSE Tail(queue)

\* processQueue of activation c of the activations cs up to its first await,
\* on the queue q and the messages ms: it returns on an empty queue, emits VALIDATION_ERROR for
\* a head that is not valid, shifts it and calls itself, or calls
\* processMessage with the head
RECURSIVE processQueue(_, _, _, _)
processQueue(c, q, ms, cs) ==
    IF q = <<>>
    THEN /\ socketQueue' = q
         /\ socketMessages' = ms
         /\ chains' = [cs EXCEPT ![c] = [at |-> "RETURNED", message |-> 0]]
    ELSE IF ~ms[q[1]].valid
    THEN processQueue(c, Shift(q), [ms EXCEPT ![q[1]].rejected = @ + 1], cs)
    ELSE /\ socketQueue' = q
         /\ socketMessages' = [ms EXCEPT ![q[1]].attempts = @ + 1]
         /\ chains' = [cs EXCEPT ![c] = [at |-> "PROCESS", message |-> q[1]]]

\* socket.on('chat message'): addToQueue pushes the message and calls
\* processQueue
addToQueue(valid) ==
    /\ Len(socketMessages) < MaxMessages
    /\ processQueue(Len(chains) + 1,
                    Append(socketQueue, Len(socketMessages) + 1),
                    Append(socketMessages, Queued(valid)),
                    Append(chains, [at |-> "CALLED", message |-> 0]))

\* processMessage of activation c returns: queue.shift(), and processQueue
\* again if the queue is not empty
ProcessResolves(c) ==
    /\ chains[c].at = "PROCESS"
    /\ processQueue(c, Shift(socketQueue),
                    [socketMessages EXCEPT ![chains[c].message].done = @ + 1],
                    chains)

\* processMessage of activation c throws: the message gets another retry
\* and the activation waits 1000 * retries ms, or PROCESSING_ERROR is
\* emitted, queue.shift(), and processQueue again if the queue is not empty
ProcessThrows(c) ==
    /\ chains[c].at = "PROCESS"
    /\ LET m == chains[c].message
       IN IF socketMessages[m].retries < MaxRetries
          THEN /\ socketMessages' = [socketMessages EXCEPT ![m].retries = @ + 1]
               /\ chains' = [chains EXCEPT ![c].at = "BACKOFF"]
               /\ UNCHANGED socketQueue
          ELSE processQueue(c, Shift(socketQueue),
                            [socketMessages EXCEPT ![m].failed = @ + 1],
                            chains)

\* the wait of activation c is over: `return this.processQueue(socket)`
BackoffEnds(c) ==
    /\ chains[c].at = "BACKOFF"
    /\ processQueue(c, socketQueue, socketMessages, chains)

SocketInit ==
    /\ OrchestratorIdle
    /\ RegistryIdle
    /\ ChatIdle
    /\ SocketIdle
    /\ LegacyIdle
    /\ CacheIdle

SocketNext ==
    \/ \E valid \in BOOLEAN :
          addToQueue(valid) /\ UNCHANGED <<vars, twoVars, registryVars, chatVars,
                                                legacyVars, cacheVars>>
    \/ \E c \in 1..Len(chains) :
          ProcessResolves(c) /\ UNCHANGED <<vars, twoVars, registryVars, chatVars,
                                                legacyVars, cacheVars>>
    \/ \E c \in 1..Len(chains) :
          ProcessThrows(c) /\ UNCHANGED <<vars, twoVars, registryVars, chatVars,
                                                legacyVars, cacheVars>>
    \/ \E c \in 1..Len(chains) :
          BackoffEnds(c) /\ UNCHANGED <<vars, twoVars, registryVars, chatVars,
                                                legacyVars, cacheVars>>

SpecSocket == SocketInit /\ [][SocketNext]_socketVars

-----------------------------------------------------------------------------
(* The message queue of the legacy socket server (part_014 lines 70-237)   *)
(* for one connection.  A step is the code between two awaits; the awaits  *)
(* after the cache lookup (the agent calls, the pauses, the synthesis, the *)
(* cache write) are taken as one.                                          *)

\* bound of the model: the messages of the connection
MaxArrivals == 5

\* processMessageQueue() up to its first await, on the state st of the
\* connection (queue, flag and the awaiting activations): it returns at
\* once when the flag is set or the queue is empty; else it sets the flag
\* and shifts a message.  For a message that is not valid it clears the
\* flag, calls itself, returns, and its finally block clears the flag and
\* calls itself again; with a valid one it awaits the cache.
RECURSIVE processMessageQueue(_)
RECURSIVE Finally(_)
processMessageQueue(st) ==
    IF st.isProcessing \/ st.messageQueue = <<>> THEN st
    ELSE LET message == Head(st.messageQueue)
             taken == [st EXCEPT !.isProcessing = TRUE,
                                 !.messageQueue = Tail(@)]
         IN IF ~message.valid
            THEN Finally(processMessageQueue(
                             [taken EXCEPT !.isProcessing = FALSE]))
            ELSE [taken EXCEPT !.inProcess =
                      @ \cup {[message |-> message.id, at |-> "CACHE"]}]

\* `finally { isProcessing = false; processMessageQueue(); }`
Finally(st) == processMessageQueue([st EXCEPT !.isProcessing = FALSE])

\* the state of the connection
Connection ==
    [messageQueue |-> messageQueue, isProcessing |-> isProcessing,
     inProcess |-> inProcess]

\* the connection goes to the state st
Becomes(st) ==
    /\ messageQueue' = st.messageQueue
    /\ isProcessing' = st.isProcessing
    /\ inProcess' = st.inProcess

\* socket.on('chat message') for a message that the rate limiter lets
\* pass: messageQueue.push(message); processMessageQueue()
ChatMessage(valid) ==
    /\ arrived < MaxArrivals
    /\ arrived' = arrived + 1
    /\ Becomes(processMessageQueue(
                   [Connection EXCEPT !.messageQueue =
                       Append(@, [id |-> arrived + 1, valid |-> valid])]))

\* cacheService.get returns for activation a: with a cached response the
\* activation emits it, clears the flag, calls processMessageQueue and
\* returns through its finally block; without one it goes on to the agents
CacheReturns(a) ==
    /\ a \in inProcess
    /\ a.at = "CACHE"
    /\ \E cachedResponse \in BOOLEAN :
        IF cachedResponse
        THEN Becomes(Finally(processMessageQueue(
                 [Connection EXCEPT !.inProcess = @ \ {a},
                                    !.isProcessing = FALSE])))
        ELSE Becomes([Connection EXCEPT !.inProcess =
                         (@ \ {a}) \cup {[message |-> a.message,
                                          at |-> "AGENTS"]}])
    /\ UNCHANGED arrived

\* the work of activation a on its message ends, with the final response or
\* with an error: the finally block
AgentsReturn(a) ==
    /\ a \in inProcess
    /\ a.at = "AGENTS"
    /\ Becomes(Finally([Connection EXCEPT !.inProcess = @ \ {a}]))
    /\ UNCHANGED arrived

LegacyInit ==
    /\ OrchestratorIdle
    /\ RegistryIdle
    /\ ChatIdle
    /\ SocketIdle
    /\ LegacyIdle
    /\ CacheIdle

LegacyNext ==
    \/ \E valid \in BOOLEAN :
          ChatMessage(valid) /\ UNCHANGED <<vars, twoVars, registryVars,
                                            chatVars, socketVars, cacheVars>>
    \/ \E a \in inProcess :
          CacheReturns(a) /\ UNCHANGED <<vars, twoVars, registryVars,
                                         chatVars, socketVars, cacheVars>>
    \/ \E a \in inProcess :
          AgentsReturn(a) /\ UNCHANGED <<vars, twoVars, registryVars,
                                         chatVars, socketVars, cacheVars>>

SpecLegacy == LegacyInit /\ [][LegacyNext]_legacyVars

-----------------------------------------------------------------------------
(* The response cache of MagenticOneService (magenticOneService.js lines   *)
(* 438-547 and 832-849).  A text is a sequence of tokens of 12 bytes, the  *)
(* clock counts hours.                                                     *)

\* bounds of the model: the calls of getAgentResponse and the hours
MaxCalls == 3
MaxHours == 1

\* the instance as the constructor of magenticOneService.js leaves it, with
\* no `this.agents`, and one with the agents table that the constructor
\* of part_012 sets
AgentTables == {"undefined", "table"}

\* the messages of the users
UserMessages == {"m1", "m2"}

\* the prompt of the brainstorming phase: a fixed instruction, then the
\* message
brainstormingPrompt(message) ==
    <<"You are in b", "rainstorming", " mode. Your ", message>>

\* the prompt of the initial analysis
analysisPrompt(message) ==
    <<"Analyze the ", "following re", "quest: ", message>>

\* the calls of getAgentResponse: those of processIdeationMessage, and the
\* one of the legacy socket server, which passes the message itself
CacheRequests ==
    UNION {{[agentType |-> "creative", message |-> brainstormingPrompt(m),
             phase |-> "brainstorming"],
            [agentType |-> "reasoning", message |-> analysisPrompt(m),
             phase |-> "initial_analysis"],
            [agentType |-> "creative", message |-> <<m>>,
             phase |-> "brainstorming"]} : m \in UserMessages}

\* `.slice(0, 32)` of the base64 text: 32 characters encode 24 bytes, two
\* tokens
KeptTokens == 2

\* Buffer.from(message).toString('base64').slice(0, 32): the encoding of
\* the first 24 bytes of the message
Base64Slice(message) ==
    SubSeq(message, 1, IF Len(message) < KeptTokens THEN Len(message)
                       ELSE KeptTokens)

\* `${agentType}:${...}:${phase}`
cacheKey(agentType, message, phase) ==
    <<agentType, Base64Slice(message), phase>>

\* the time to live of an entry, in hours
TimeToLive == 1

\* the entry of the cache under the key, as a set
Cached(key) == {e \in responseCache : e.key = key}

\* getCachedResponse(key): the response of the entry when it is younger
\* than the time to live, else null; the entries it returns, as a set
getCachedResponse(key) ==
    {e \in Cached(key) : cacheNow - e.timestamp < TimeToLive}

\* ... and what is left in the cache: an entry that has expired is deleted
AfterGet(key) == responseCache \ (Cached(key) \ getCachedResponse(key))

\* setCachedResponse(key, response).  `request` is not in the code: it
\* records the call whose response the entry holds.
setCachedResponse(key, response, request) ==
    (responseCache \ Cached(key))
        \cup {[key |-> key, response |-> response, timestamp |-> cacheNow,
               request |-> request]}

\* the contents a model answers with
Contents == {"c1", "c2"}

\* getAgentResponse(agentType, message, history, phase) up to its first
\* await: without `this.agents` line 440 throws a TypeError, which the
\* catch block throws again; else the cache is looked up and a response
\* found there is returned; else the API is called
getAgentResponse(request) ==
    /\ cacheCalls < MaxCalls
    /\ cacheCalls' = cacheCalls + 1
    /\ LET key == cacheKey(request.agentType, request.message, request.phase)
       IN IF serviceAgents = "undefined"
          THEN /\ lastServed' = [kind |-> "thrown", request |-> request]
               /\ UNCHANGED <<responseCache, cachePending>>
          ELSE /\ responseCache' = AfterGet(key)
               /\ IF getCachedResponse(key) # {}
                  THEN /\ lastServed' =
                            [kind |-> "cached", request |-> request,
                             response |->
                                 (CHOOSE e \in getCachedResponse(key) :
                                      TRUE).response,
                             storedFor |->
                                 (CHOOSE e \in getCachedResponse(key) :
                                      TRUE).request]
                       /\ UNCHANGED cachePending
                  ELSE /\ cachePending' = cachePending \cup {request}
                       /\ UNCHANGED lastServed
    /\ UNCHANGED <<serviceAgents, cacheNow>>

\* the API answers a call: the result is stored under the key of the call
\* and returned
ApiResponds(request, content) ==
    /\ request \in cachePending
    /\ cachePending' = cachePending \ {request}
    /\ LET result == [content |-> content, agentType |-> request.agentType]
       IN /\ responseCache' =
                setCachedResponse(
                    cacheKey(request.agentType, request.message,
                             request.phase), result, request)
          /\ lastServed' = [kind |-> "fresh", request |-> request,
                            response |-> result]
    /\ UNCHANGED <<serviceAgents, cacheNow, cacheCalls>>

\* the call of the API fails: a timeout gives the fallback, any other
\* error is thrown again; nothing is stored
ApiFails(request, timeout) ==
    /\ request \in cachePending
    /\ cachePending' = cachePending \ {request}
    /\ lastServed' = [kind |-> IF timeout THEN "fallback" ELSE "thrown",
                      request |-> request]
    /\ UNCHANGED <<serviceAgents, responseCache, cacheNow, cacheCalls>>

\* an hour passes
Hour ==
    /\ cacheNow < MaxHours
    /\ cacheNow' = cacheNow + 1
    /\ UNCHANGED <<serviceAgents, responseCache, cachePending, cacheCalls,
                   lastServed>>

CacheInit ==
    /\ OrchestratorIdle
    /\ RegistryIdle
    /\ ChatIdle
    /\ SocketIdle
    /\ LegacyIdle
    /\ serviceAgents \in AgentTables
    /\ responseCache = {}
    /\ cachePending = {}
    /\ cacheNow = 0
    /\ cacheCalls = 0
    /\ lastServed = NotServed

CacheNext ==
    \/ \E request \in CacheRequests :
          getAgentResponse(request)
              /\ UNCHANGED <<vars, twoVars, registryVars, chatVars,
                             socketVars, legacyVars>>
    \/ \E request \in cachePending, content \in Contents :
          ApiResponds(request, content)
              /\ UNCHANGED <<vars, twoVars, registryVars, chatVars,
                             socketVars, legacyVars>>
    \/ \E request \in cachePending, timeout \in BOOLEAN :
          ApiFails(request, timeout)
              /\ UNCHANGED <<vars, twoVars, registryVars, chatVars,
                             socketVars, legacyVars>>
    \/ Hour /\ UNCHANGED <<vars, twoVars, registryVars, chatVars,
                           socketVars, legacyVars>>

SpecCache == CacheInit /\ [][CacheNext]_cacheVars

-----------------------------------------------------------------------------
(* The claims *)

Running == {"PHASE1", "PHASE2", "PHASE3", "PHASE4"}

\* the fallback text for the call that returned last: the last call of a
\* session that is DONE had the prompt of executeFinalSummary, which the
\* text quotes
LastFallback ==
    getFallbackResponse(lastReturn.agentType,
                        IF pc = "DONE"
                        THEN summaryContext(UserPrompt, sessionResults)
                        ELSE NoPrompt)

Rank(p) ==
    CASE p = "INIT" -> 0
      [] p = "PHASE1" -> 1
      [] p = "PHASE2" -> 2
      [] p = "PHASE3" -> 3
      [] p = "PHASE4" -> 4
      [] p = "DONE" -> 5
      [] OTHER -> 9

Complete(res) == \A a \in agents : res[a] # Null

Blank(res) == \A a \in agents : res[a] = Null

\* the phase whose step is enabled when call returns
CallPhase(call) ==
    CASE call.phase[1] = "phase1" -> "PHASE1"
      [] call.phase[1] = "phase2" -> "PHASE2"
      [] call.phase[1] = "phase3" -> "PHASE3"
      [] call.phase[1] = "final" -> "PHASE4"

\* the steps the session has taken: the phases entered and the requests made
Steps == Rank(pc) + requests[1] + requests[2] + requests[3] + requests[4]

\* C1: once Phase 1 has started the session reaches DONE, whatever the calls
\* do: it never fails, until it is DONE it waits for a call in flight (which
\* returns within the timeout of the call, and the session takes its next
\* step), every step is one of at most 5 + 3 + 10 + 3 + 1, and a session
\* whose synthesis call failed is DONE with the fallback text of the
\* reasoning persona as its content.
C1_SessionCompletes ==
    /\ [][(pc \in Running) => (pc' # "FAILED")]_vars
    /\ [](pc \in Running => inflight # NoCall /\ pc = CallPhase(inflight))
    /\ [][Steps' > Steps]_vars
    /\ [](Steps <= 5 + 3 + 10 + 3 + 1)
    /\ [](pc = "DONE" /\ lastReturn.failed
            => finalResult.content = LastFallback)

\* a session is DONE although calls of Phase 1 and the synthesis call failed
C1_Witness ==
    /\ pc = "DONE"
    /\ lastReturn.failed
    /\ sessionResults.phase1["creative"] = <<"fallback", "creative">>
    /\ finalResult.content = <<"fallback", "reasoning">> \o ReportHeaders

\* C2: when the backend call of executeAgent fails, executeAgent returns
\* the fallback text of its persona, the session has not failed, and the
\* phase has gone on to its next call or the session is done.
C2_FailureGivesFallback ==
    lastReturn.failed =>
        /\ lastReturn.content = LastFallback
        /\ pc # "FAILED"
        /\ pc = "DONE" \/ inflight # NoCall

\* a call of Phase 2 failed and the next iteration has been started
C2_Witness ==
    /\ pc = "PHASE2"
    /\ lastReturn.failed
    /\ lastReturn.agentType = lastAgent
    /\ expansionResults.last.content = <<"fallback", lastAgent>>
    /\ inflight # NoCall

\* C3: every result of an agent call that the session holds has a content
\* that is not empty.
C3_ContentNeverEmpty ==
    /\ \A a \in agents :
        /\ results[a] # <<>>
        /\ sessionResults.phase1[a] # <<>>
        /\ sessionResults.phase3[a] # <<>>
    /\ expansionResults.length > 0 => expansionResults.last.content # <<>>
    /\ sessionResults.phase2.length > 0
          => sessionResults.phase2.last.content # <<>>
    /\ finalResult.content # <<>>

\* C4: the session goes through INIT, PHASE1, PHASE2, PHASE3, PHASE4, DONE
\* one after the other (or fails from INIT); the call in flight belongs to
\* the current phase; a phase is entered with the results of all earlier
\* phases complete and all their requests made, and no request of a later
\* phase has been made.
C4_PhaseOrder ==
    /\ [][pc' # pc =>
            \/ Rank(pc') = Rank(pc) + 1
            \/ pc = "INIT" /\ pc' = "FAILED"]_vars
    /\ [](inflight # NoCall =>
            /\ pc \in Running
            /\ inflight.phase[1] =
                  (CASE pc = "PHASE1" -> "phase1" [] pc = "PHASE2" -> "phase2"
                     [] pc = "PHASE3" -> "phase3" [] pc = "PHASE4" -> "final"))
    /\ [](pc \in Running =>
            /\ inflight # NoCall
            /\ \A p \in 1..4 : p > Rank(pc) => requests[p] = 0
            /\ Rank(pc) > 1 => Complete(sessionResults.phase1) /\ requests[1] = 3
            /\ Rank(pc) > 2 => requests[2] >= 1
            /\ Rank(pc) > 3 => Complete(sessionResults.phase3) /\ requests[3] = 3)

\* a session is DONE after the requests of all four phases
C4_Witness ==
    /\ pc = "DONE"
    /\ requests[1] = 3 /\ requests[2] = 10 /\ requests[3] = 3 /\ requests[4] = 1

\* C5: in Phase 1 and in Phase 3 the creative call is the first, the logical
\* call is made when only the creative result is there, and the reasoning
\* call when the creative and the logical results are there.
C5_FixedOrder ==
    pc \in {"PHASE1", "PHASE3"} /\ inflight # NoCall =>
        LET p == IF pc = "PHASE1" THEN 1 ELSE 3
            done == {a \in agents : results[a] # Null}
        IN \/ inflight.agentType = "creative" /\ done = {} /\ requests[p] = 1
           \/ inflight.agentType = "logical" /\ done = {"creative"}
                /\ requests[p] = 2
           \/ inflight.agentType = "reasoning" /\ done = {"creative", "logical"}
                /\ requests[p] = 3

\* the reasoning call of Phase 3 is in flight after failed creative and
\* logical calls
C5_Witness ==
    /\ pc = "PHASE3"
    /\ inflight.agentType = "reasoning"
    /\ results["creative"] = <<"fallback", "creative">>
    /\ results["logical"] = <<"fallback", "logical">>

\* C6: the persona of the Phase 2 call in flight is one of the three
\* personas and is not the persona of the iteration before it.
C6_NoRepeat ==
    pc = "PHASE2" /\ inflight # NoCall =>
        /\ inflight.agentType \in {"creative", "logical", "reasoning"}
        /\ inflight.agentType # lastAgent

\* the tenth iteration runs with a persona other than that of the ninth
C6_Witness ==
    /\ pc = "PHASE2"
    /\ iterationCount = 10
    /\ lastAgent = "logical"
    /\ inflight.agentType = "creative"

\* C7: a Phase 2 call is issued less than 60000 ms after the phase start and
\* is one of at most 10; a step of Phase 2 is the return of the call in
\* flight, and when the phase ends with it the response is in the results.
C7_Phase2Deadline ==
    /\ [](pc = "PHASE2" /\ inflight # NoCall =>
            /\ inflight.issuedAt < 60000
            /\ iterationCount <= 10
            /\ requests[2] = iterationCount)
    /\ [][pc = "PHASE2" =>
            /\ lastReturn'.agentType = inflight.agentType
            /\ pc' = "PHASE3" =>
                 sessionResults'.phase2 =
                    IF lastReturn'.content = <<>> THEN expansionResults
                    ELSE [length |-> expansionResults.length + 1,
                          last |-> [agent |-> inflight.agentType,
                                    content |-> lastReturn'.content]]]_vars

\* the tenth call of Phase 2 is in flight
C7_Witness ==
    /\ pc = "PHASE2"
    /\ iterationCount = 10
    /\ inflight # NoCall

\* C8: executePhase2 returns at most 60000 + 30000 ms after the phase start.
C8_Phase2Duration ==
    /\ phase2Duration <= 60000 + 30000
    /\ pc = "PHASE2" => elapsed < 60000

\* Phase 2 has ended later than its budget
C8_Witness ==
    /\ pc = "PHASE3"
    /\ phase2Duration > 60000
    /\ sessionResults.phase2.length > 0

\* C9: without an API key the session fails before any phase: no request is
\* made and no result exists.
C9_NoKeyNoSession ==
    ~apiKey =>
        /\ pc \in {"INIT", "FAILED"}
        /\ \A p \in 1..4 : requests[p] = 0
        /\ Blank(results)

\* C10: a completed session has the results of Phase 1, Phase 2, Phase 3 and
\* the synthesis, and none of the four is empty.
C10_FourPhaseResults ==
    pc = "DONE" =>
        /\ Complete(sessionResults.phase1)
        /\ sessionResults.phase2.length >= 1
        /\ Complete(sessionResults.phase3)
        /\ finalResult.content # Null
        /\ finalResult.totalPhases = 4

TextsOf(f) ==
    {f.results[a] : a \in agents}
    \cup {f.sessionResults.phase1[a] : a \in agents}
    \cup {f.sessionResults.phase3[a] : a \in agents}
    \cup {f.expansionResults.last.content,
          f.sessionResults.phase2.last.content, f.content}

\* the texts that the prompt of a call carries
PromptTexts(call) ==
    {call.prompt.sections[k].text : k \in DOMAIN call.prompt.sections}
    \cup {call.prompt.expansions.last.content}

Marks(text) == {text[k] : k \in DOMAIN text}

\* C12: with two sessions on one instance, under every interleaving of
\* their calls, every result of a session is an output of a call of that
\* session, the prompts of a session carry no text of the other session, and
\* a step of one session changes neither the results nor the call of the
\* other.
C12_SessionsIndependent ==
    /\ [](\A i \in Sessions :
            /\ \A text \in TextsOf(frames[Slot(i)]) :
                  text # Null => Tag(i) \in Marks(text)
            /\ \A text \in PromptTexts(twoCall[i]) :
                  \A j \in Sessions \ {i} : Tag(j) \notin Marks(text)
            /\ twoPc[i] \in Running => twoCall[i] # NoCall)
    /\ [][\A i \in Sessions :
            (twoPc'[i] = twoPc[i] /\ twoCall'[i] = twoCall[i])
                => (frames'[Slot(i)] = frames[Slot(i)])]_twoVars

\* both sessions are in Phase 2 with recorded responses and a call in flight
C12_Witness ==
    /\ twoPc[1] = "PHASE2" /\ twoPc[2] = "PHASE2"
    /\ twoCall[1] # NoCall /\ twoCall[2] # NoCall
    /\ frames[Slot(1)].expansionResults.length = 2
    /\ frames[Slot(2)].expansionResults.length = 1
    /\ frames[Slot(2)].expansionResults.last.content[1] = "fallback"

\* the prompt has a section with the label that carries the text
Carries(prompt, label, text) ==
    \E n \in DOMAIN prompt.sections :
        prompt.sections[n] = Section(label, text)

\* the prompt has a section with the label
HasSection(prompt, label) ==
    \E n \in DOMAIN prompt.sections : prompt.sections[n].label = label

\* C13: in Phase 1 and in Phase 3 the prompt of a step has a section for
\* every earlier step of the phase, and the section carries the whole output
\* of that step, a fallback text like an answer (where the output is the
\* empty text the section holds the placeholder of lines 110-115, 178-183).
C13_FixedOrderPrompts ==
    pc \in {"PHASE1", "PHASE3"} /\ inflight # NoCall =>
        LET prefix == IF pc = "PHASE1" THEN "phase1" ELSE "phase3"
        IN \A j \in 1..(StepOf(inflight.agentType) - 1) :
              LET a == FixedOrder[j]
              IN /\ results[a] # Null
                 /\ HasSection(inflight.prompt, PhaseName(prefix, a))
                 /\ results[a] # <<>> =>
                       Carries(inflight.prompt, PhaseName(prefix, a),
                               results[a])

\* the reasoning call of Phase 3 is in flight with the fallback text of the
\* creative step and the answer of the logical step in its prompt
C13_Witness ==
    /\ pc = "PHASE3"
    /\ inflight.agentType = "reasoning"
    /\ results["creative"] = getFallbackResponse("creative", NoPrompt)
    /\ results["logical"] = <<"w">>
    /\ Carries(inflight.prompt, PhaseName("phase3", "creative"),
               getFallbackResponse("creative", NoPrompt))
    /\ Carries(inflight.prompt, PhaseName("phase3", "logical"), <<"w">>)

CarriesPhase(prompt, prefix, res) ==
    \A a \in agents :
        /\ res[a] # Null
        /\ res[a] # <<>> => Carries(prompt, PhaseName(prefix, a), res[a])

C16_CreativeFailure ==
    /\ pc = "PHASE1" /\ inflight.agentType = "logical"
            /\ lastReturn.failed =>
          /\ lastReturn.agentType = "creative"
          /\ results["creative"] = <<"fallback", "creative">>
    /\ pc = "PHASE1" /\ inflight.agentType # "creative"
            /\ results["creative"] = <<"fallback", "creative">> =>
          Carries(inflight.prompt, PhaseName("phase1", "creative"),
                  <<"fallback", "creative">>)
    /\ sessionResults.phase1["creative"] = <<"fallback", "creative">> =>
          /\ Complete(sessionResults.phase1)
          /\ requests[1] = 3
          /\ pc \in {"PHASE2", "PHASE3", "PHASE4", "DONE"}
          /\ pc = "PHASE3" =>
                /\ inflight # NoCall
                /\ requests[3] = StepOf(inflight.agentType)
          /\ pc \in {"PHASE4", "DONE"} =>
                /\ Complete(sessionResults.phase3)
                /\ requests[3] = 3

\* a session whose creative call of Phase 1 failed, and no other call, is
\* done with the answers of Phase 3
C16_Witness ==
    /\ pc = "DONE"
    /\ sessionResults.phase1 =
          [a \in agents |->
              IF a = "creative" THEN <<"fallback", "creative">> ELSE <<"w">>]
    /\ sessionResults.phase3 = [a \in agents |-> <<"w">>]
    /\ finalResult.content = <<"w">>

C18_OneRequestPerStep ==
    /\ requests[1] <= Len(FixedOrder)
    /\ requests[2] <= MaxIterations
    /\ requests[3] <= Len(FixedOrder)
    /\ requests[4] <= 1
    /\ requests[1] + requests[2] + requests[3] + requests[4]
          <= Len(FixedOrder) + MaxIterations + Len(FixedOrder) + 1
    /\ pc = "PHASE1" =>
          requests = <<StepOf(inflight.agentType), 0, 0, 0>>
    /\ pc = "PHASE2" =>
          requests = <<Len(FixedOrder), iterationCount, 0, 0>>
    /\ pc = "PHASE3" =>
          /\ requests[1] = Len(FixedOrder)
          /\ requests[3] = StepOf(inflight.agentType)
          /\ requests[4] = 0
    /\ pc \in {"PHASE4", "DONE"} =>
          /\ requests[1] = Len(FixedOrder)
          /\ requests[3] = Len(FixedOrder)
          /\ requests[4] = 1
    /\ lastReturn.failed =>
          /\ lastReturn.content = LastFallback
          /\ (pc \in {"PHASE1", "PHASE3"} /\ StepOf(inflight.agentType) > 1) =>
                /\ lastReturn.agentType =
                      FixedOrder[StepOf(inflight.agentType) - 1]
                /\ results[lastReturn.agentType] = lastReturn.content
          /\ pc = "PHASE2" /\ iterationCount > 1 =>
                /\ lastReturn.agentType = lastAgent
                /\ inflight.agentType # lastAgent
                /\ expansionResults.last.content = lastReturn.content

\* a session whose last request failed has issued 3 + 10 + 3 + 1 requests
C18_Witness ==
    /\ pc = "DONE"
    /\ requests = <<3, 10, 3, 1>>
    /\ lastReturn.failed
    /\ faults > 0

\* C19: the content that a session returns has every header of the final
\* report, whatever the backend calls did, also when the call of the
\* synthesis fails or answers without the headers.
C19_ReportHeaders ==
    pc = "DONE" => HasHeaders(finalResult.content)

\* C20: with an empty model pool no request is sent and no phase result is
\* produced, and the caller of the session gets the configuration error:
\* the call ends with the error thrown, not with a fallback text in its
\* place.
C20_EmptyPoolError ==
    Len(availableModels) = 0 =>
        /\ requests = [p \in 1..totalPhases |-> 0]
        /\ results = NoResults
        /\ sessionResults = [phase1 |-> NoResults, phase2 |-> EmptyExpansion,
                             phase3 |-> NoResults]
        /\ pc \in {"INIT", "FAILED"}
        /\ pc = "FAILED" =>
              /\ processIdeationMessage(UserPrompt).thrown
              /\ processIdeationMessage(UserPrompt).value
                    # generateFallbackResponse(UserPrompt)

\* C21: processIdeationMessage of MagenticOneService never rejects once a
\* session has been attempted, and what it resolves with is a text: the
\* synthesis or a fallback text, never an error.
C21_NeverRejects ==
    \A file \in ServiceFiles :
        LET r == ServiceResult(file, UserPrompt)
        IN /\ ~r.thrown
           /\ r.settled => Truthy(r.value) \/ r.value = <<>>
           /\ pc \in {"DONE", "FAILED"} => r.settled

\* C29: in the result sequence of executePhase2 no two consecutive entries
\* come from the same persona: an entry that is pushed, also the last one
\* before executePhase2 returns, is not of the persona of the entry before it.
C29_NoConsecutiveRepeat ==
    [][/\ (pc = "PHASE2" /\ pc' = "PHASE2" /\ expansionResults.length > 0
             /\ expansionResults'.length = expansionResults.length + 1)
          => (expansionResults'.last.agent # expansionResults.last.agent)
       /\ (pc = "PHASE2" /\ pc' # "PHASE2" /\ expansionResults.length > 0
             /\ sessionResults'.phase2.length = expansionResults.length + 1)
          => (sessionResults'.phase2.last.agent
                 # expansionResults.last.agent)]_vars

\* the sessions that were started and have been neither ended nor timed out
Remaining ==
    {[agentType |-> started[k].agentType, startTime |-> started[k].startTime,
      timer |-> started[k].timer] :
        k \in {j \in 1..Len(started) : started[j].fate = "active"}}

\* C23: after any sequence of starts and ends, getActiveSessions returns
\* exactly the sessions that were started and have been neither ended by
\* endIdeationSession with their id nor timed out.
C23_ActiveSessions == getActiveSessions = Remaining

\* C24: a session is active immediately after startIdeationSession; an
\* active session has a timer that ends it within the ideation time limit,
\* and no session is active for longer than the time limit.
C24_TimeLimit ==
    /\ [][(Len(started') > Len(started)) =>
             (\E e \in activeSessions' :
                 /\ e.timer = Len(started')
                 /\ e.startTime = now'
                 /\ e.id = started'[Len(started')].id)]_registryVars
    /\ [](\A e \in activeSessions :
             /\ now - e.startTime <= TimeLimitMs
             /\ \E t \in timers :
                   /\ t.handle = e.timer
                   /\ t.sessionId = e.id
                   /\ t.due <= e.startTime + TimeLimitMs)
    /\ [](\A k \in 1..Len(started) :
             started[k].fate = "timedout" =>
                /\ now >= started[k].startTime + Delay(ideationTimeLimit)
                /\ \A e \in activeSessions : e.timer # k)

\* a session that nobody ended has been removed when its 10 s were over
C24_Witness ==
    /\ ideationTimeLimit = <<10>>
    /\ Len(started) = 1
    /\ started[1].fate = "timedout"
    /\ now = started[1].startTime + 10000
    /\ activeSessions = {}
    /\ timers = {}

\* C30: startIdeationSession returns an id that no active session has:
\* the sessions that have been neither ended nor timed out have distinct
\* ids, and a timer that is running ends the session it was set for.
C30_DistinctIds ==
    /\ \A j, k \in 1..Len(started) :
          (j # k /\ started[j].fate = "active" /\ started[k].fate = "active")
             => started[j].id # started[k].id
    /\ \A t \in timers :
          \A e \in MapGet(activeSessions, t.sessionId) : e.timer = t.handle

\* the entries of the history that request r has added
OwnEntries(r) ==
    SelectSeq(history, LAMBDA e : e.content \in {MessageOf(r), ResponseOf(r)})

Removed ==
    {m \in 1..Len(socketMessages) :
        \A k \in 1..Len(socketQueue) : socketQueue[k] # m}

\* C26: a message whose processing throws gets at most 3 retries and at
\* most 4 calls of processMessage; the error event is emitted once, after
\* the fourth call has failed, and the message is then out of the queue;
\* while the queue has a message an activation of processQueue is at work,
\* so the queue is never left blocked.
C26_BoundedRetries ==
    /\ \A m \in 1..Len(socketMessages) :
          /\ socketMessages[m].retries <= MaxRetries
          /\ socketMessages[m].attempts <= MaxRetries + 1
          /\ socketMessages[m].failed <= 1
          /\ socketMessages[m].failed = 1 =>
                /\ m \in Removed
                /\ socketMessages[m].attempts = MaxRetries + 1
    /\ socketQueue # <<>> =>
          \E c \in 1..Len(chains) : chains[c].at \in {"PROCESS", "BACKOFF"}

\* C27: every message of the socket is processed exactly once, and the
\* messages are processed one at a time in the order of their arrival: at
\* most one call of processMessage is awaited, it is for the head of the
\* queue, no message is processed to its end twice, and a message leaves
\* the queue only as processed, failed after its retries or rejected.
C27_ExactlyOnceInOrder ==
    /\ Cardinality({c \in 1..Len(chains) : chains[c].at = "PROCESS"}) <= 1
    /\ \A c \in 1..Len(chains) :
          chains[c].at = "PROCESS" =>
             socketQueue # <<>> /\ socketQueue[1] = chains[c].message
    /\ \A m \in 1..Len(socketMessages) :
          /\ socketMessages[m].done <= 1
          /\ m \in Removed =>
                socketMessages[m].done + socketMessages[m].failed
                   + socketMessages[m].rejected = 1
    /\ \A k \in 1..Len(socketQueue) :
          \A l \in 1..Len(socketQueue) : k < l => socketQueue[k] < socketQueue[l]

\* C28: the isProcessing flag gives mutual exclusion: at most one message
\* of the connection is being processed at any time, for every arrival
\* pattern, also after a message was rejected by validation or answered
\* from the cache.
C28_MutualExclusion == Cardinality(inProcess) <= 1

====
